---- MODULE Spec2Model ----
(***************************************************************************)
(* A model of the RustyInvaders raster core: Array2D and Bitmap            *)
(* (src/src/engine.rs), Sprite and Board (src/src/game.rs).                *)
(*                                                                         *)
(* A call that panics is modelled by its outcome "panic"; the board is     *)
(* then left as it was at the moment of the panic and accepts no further   *)
(* call.  usize arithmetic panics on overflow when the crate is built with *)
(* overflow checks (the dev and test profiles) and wraps otherwise (the    *)
(* release profile); overflow_checks is chosen once, at start.             *)
(***************************************************************************)
EXTENDS Integers, Sequences, FiniteSets, TLC

(* ----------------------------- bounds ---------------------------------- *)

\* Largest number of columns and of rows of a sprite's bitmap.
MaxCols == 2
MaxRows == 2
\* Largest x and y of a sprite's position.
MaxX == 1
MaxY == 1
\* Dimensions of the board's screen.
ScreenCols == 2
ScreenRows == 2
\* Largest number of sprites on one board.
MaxSprites == 2
\* Largest number of update calls counted since the last add_sprite.
MaxUpdates == 2
\* Largest number of columns and of rows of a grid used on its own.
MaxGridCols == 2
MaxGridRows == 2
\* Largest number of set calls on a grid and its clone together.
MaxSets == 1

\* usize is 64 bits wide on the targets of the crate; TLC's integers have 32
\* bits, so the model wraps at 2^30.  Every dimension and coordinate of the
\* model is far below either modulus, so a wrapped difference is out of range
\* of every bitmap under both.
UsizeMod == 1073741824

\* The byte values foregrounds and backgrounds are drawn from: the screen's
\* background of the board tests and the foreground of the sprite fixtures.
Bytes == {0, 4}

\* Board::new(cols, rows, fg, bg) of the board tests.
ScreenFg == 1
ScreenBg == 0

(* --------------------------- engine.rs --------------------------------- *)

Position(px, py) == [x |-> px, y |-> py]

\* Array2D::new with a fill value: rows * cols copies of it.
Array2DNew(cols, rows, fill) ==
    [elements |-> [i \in 1..(rows * cols) |-> fill], rows |-> rows, cols |-> cols]

in_range(a, index) == index.x < a.cols /\ index.y < a.rows

\* index_panics without the in_range test: only the offset is checked.
index_panics_offset_only(a, index) ==
    index.y * a.cols + index.x >= Len(a.elements)

\* Index<Position>: a panic when out of range, else the element at the
\* row-major offset (sequences are 1-based).
index_panics(a, index) ==
    \/ ~in_range(a, index)
    \/ index.y * a.cols + index.x >= Len(a.elements)

index(a, idx) == a.elements[idx.y * a.cols + idx.x + 1]

\* index_mut with a column-major offset.
index_mut_column_major(a, idx, v) ==
    [a EXCEPT !.elements[idx.x * a.rows + idx.y + 1] = v]

\* IndexMut<Position> followed by the assignment of v.
index_mut(a, idx, v) ==
    [a EXCEPT !.elements[idx.y * a.cols + idx.x + 1] = v]

BitmapNew(cols, rows, fg, bg) ==
    [data |-> Array2DNew(cols, rows, bg), foreground |-> fg, background |-> bg]

\* Bitmap::reset: every cell, in row-major order, is assigned the background;
\* the loop ends where an index panics.
RECURSIVE ResetFrom(_, _)
ResetFrom(bmp, k) ==
    IF k >= bmp.data.rows * bmp.data.cols THEN bmp
    ELSE IF index_panics(bmp.data, Position(k % bmp.data.cols, k \div bmp.data.cols))
    THEN bmp
    ELSE ResetFrom(
           [bmp EXCEPT !.data = index_mut(bmp.data,
                                   Position(k % bmp.data.cols, k \div bmp.data.cols),
                                   bmp.background)],
           k + 1)

\* reset with its loop started one cell late.
reset_skips_first(bmp) == ResetFrom(bmp, 1)

reset(bmp) == ResetFrom(bmp, 0)

\* Bitmap::reset panics: some cell of the loop has no element behind it.
reset_panics(bmp) ==
    \E k \in 0..(bmp.data.rows * bmp.data.cols - 1) :
        index_panics(bmp.data, Position(k % bmp.data.cols, k \div bmp.data.cols))

\* Array2D::new without a fill value: room for rows * cols elements, none
\* pushed.
Array2DNewEmpty(cols, rows) == [elements |-> << >>, rows |-> rows, cols |-> cols]

\* The grid the derived Deserialize yields from a record: its three fields,
\* taken as they are.
Array2DFromRecord(cols, rows, elements) ==
    [elements |-> elements, rows |-> rows, cols |-> cols]

\* Array2D::clone panics: it reads elements[0] for the fill argument, then
\* elements[i] for every i below cols * rows.
clone_panics(a) ==
    \/ Len(a.elements) = 0
    \/ Len(a.elements) < a.cols * a.rows

\* Array2D::clone: a grid of the same dimensions with the first cols * rows
\* elements pushed one by one.
clone(a) ==
    [elements |-> [i \in 1..(a.cols * a.rows) |-> a.elements[i]],
     rows |-> a.rows, cols |-> a.cols]

(* ---------------------------- game.rs ---------------------------------- *)

\* Sprite::new, and the sprite a record with the same fields deserializes to
\* (build_from_str): pixels are the cells of the record.
SpriteOf(cols, rows, fg, bg, pos, cells) ==
    [pixels |-> [data |-> [elements |-> cells, rows |-> rows, cols |-> cols],
                 foreground |-> fg, background |-> bg],
     pos |-> pos,
     bounds |-> [top_left |-> Position(pos.x, pos.y),
                 bottom_right |-> Position(pos.x + cols - 1, pos.y + rows - 1)]]

SpriteNew(cols, rows, fg, bg, pos) ==
    SpriteOf(cols, rows, fg, bg, pos, [i \in 1..(rows * cols) |-> bg])

None == [tag |-> "None", val |-> 0]
Some(v) == [tag |-> "Some", val |-> v]
Panic == [tag |-> "Panic", val |-> 0]

\* Sprite::get_pixel_at.  The normalised point is pos - point, computed in
\* usize after the check that point is not left of or above pos.
get_pixel_at(s, point, oc) ==
    IF point.x < s.pos.x \/ point.y < s.pos.y
    THEN None
    ELSE IF oc /\ (s.pos.x - point.x < 0 \/ s.pos.y - point.y < 0)
    THEN Panic
    ELSE LET normal_point == Position((s.pos.x - point.x) % UsizeMod,
                                      (s.pos.y - point.y) % UsizeMod)
         IN  IF in_range(s.pixels.data, normal_point)
             THEN IF index_panics(s.pixels.data, normal_point)
                  THEN Panic
                  ELSE Some(index(s.pixels.data, normal_point))
             ELSE None

Max(a, b) == IF a >= b THEN a ELSE b
Min(a, b) == IF a <= b THEN a ELSE b

\* The broad phase of Sprite::intersect: the rectangles do not overlap.
ranges_apart(self, other) ==
    \/ other.bounds.top_left.x > self.bounds.bottom_right.x
    \/ other.bounds.top_left.y > self.bounds.bottom_right.y
    \/ other.bounds.bottom_right.x < self.bounds.top_left.x
    \/ other.bounds.bottom_right.y < self.bounds.top_left.y

\* both_fg with other's pixel compared to self's foreground.
both_fg_self_only(self, other, p, oc) ==
    LET self_pixel == get_pixel_at(self, p, oc)
        other_pixel == get_pixel_at(other, p, oc)
    IN  IF self_pixel.tag = "Panic" \/ other_pixel.tag = "Panic" THEN "panic"
        ELSE IF /\ self_pixel.tag = "Some"
                /\ other_pixel.tag = "Some"
                /\ self_pixel.val = self.pixels.foreground
                /\ other_pixel.val = self.pixels.foreground
             THEN "hit"
             ELSE "miss"

\* One coordinate of the narrow phase: "panic", "hit" (both foreground) or
\* "miss".  self's pixel is fetched first.
both_fg(self, other, p, oc) ==
    LET self_pixel == get_pixel_at(self, p, oc)
        other_pixel == get_pixel_at(other, p, oc)
    IN  IF self_pixel.tag = "Panic" \/ other_pixel.tag = "Panic" THEN "panic"
        ELSE IF /\ self_pixel.tag = "Some"
                /\ other_pixel.tag = "Some"
                /\ self_pixel.val = self.pixels.foreground
                /\ other_pixel.val = other.pixels.foreground
             THEN "hit"
             ELSE "miss"

\* The narrow phase: rows common_start_y..=common_end_y, inside each the
\* columns common_start_x..=common_end_x; the first hit returns true.
RECURSIVE Scan(_, _, _, _, _, _, _)
Scan(self, other, sx, ex, cx, cy, oc) ==
    LET ey == Min(self.bounds.bottom_right.y, other.bounds.bottom_right.y)
    IN  IF cy > ey THEN "false"
        ELSE IF cx > ex THEN Scan(self, other, sx, ex, sx, cy + 1, oc)
        ELSE LET r == both_fg(self, other, Position(cx, cy), oc)
             IN  IF r = "panic" THEN "panic"
                 ELSE IF r = "hit" THEN "true"
                 ELSE Scan(self, other, sx, ex, cx + 1, cy, oc)

\* intersect with the result of the broad phase inverted.
intersect_apart_true(self, other, oc) ==
    IF ranges_apart(self, other) THEN "true"
    ELSE Scan(self, other,
              Max(self.bounds.top_left.x, other.bounds.top_left.x),
              Min(self.bounds.bottom_right.x, other.bounds.bottom_right.x),
              Max(self.bounds.top_left.x, other.bounds.top_left.x),
              Max(self.bounds.top_left.y, other.bounds.top_left.y), oc)

\* Sprite::intersect: "true", "false" or "panic".
intersect(self, other, oc) ==
    IF ranges_apart(self, other) THEN "false"
    ELSE LET common_start_x == Max(self.bounds.top_left.x, other.bounds.top_left.x)
             common_start_y == Max(self.bounds.top_left.y, other.bounds.top_left.y)
             common_end_x == Min(self.bounds.bottom_right.x, other.bounds.bottom_right.x)
         IN  Scan(self, other, common_start_x, common_end_x,
                  common_start_x, common_start_y, oc)

\* The copy loop without the test that the screen cell holds the background.
RECURSIVE ComposeOverwriting(_, _, _, _)
ComposeOverwriting(scr, sps, i, k) ==
    IF i > Len(sps) THEN [screen |-> scr, panicked |-> FALSE]
    ELSE LET sprite == sps[i]
             cols == sprite.pixels.data.cols
             rows == sprite.pixels.data.rows
         IN  IF k >= rows * cols THEN ComposeOverwriting(scr, sps, i + 1, 0)
             ELSE LET x == k % cols
                      y == k \div cols
                      target == Position(x + sprite.pos.x, y + sprite.pos.y)
                  IN  IF index_panics(scr.data, target)
                      THEN [screen |-> scr, panicked |-> TRUE]
                      ELSE ComposeOverwriting(
                             [scr EXCEPT !.data =
                                 index_mut(scr.data, target,
                                           index(sprite.pixels.data, Position(x, y)))],
                             sps, i, k + 1)

\* One cell of Board::update's copy loop, for sprite number i and the k-th
\* cell of its bitmap in row-major order: the screen cell must hold the
\* screen's background, then receives the sprite's cell.
RECURSIVE Compose(_, _, _, _)
Compose(scr, sps, i, k) ==
    IF i > Len(sps) THEN [screen |-> scr, panicked |-> FALSE]
    ELSE LET sprite == sps[i]
             cols == sprite.pixels.data.cols
             rows == sprite.pixels.data.rows
         IN  IF k >= rows * cols THEN Compose(scr, sps, i + 1, 0)
             ELSE LET x == k % cols
                      y == k \div cols
                      target == Position(x + sprite.pos.x, y + sprite.pos.y)
                  IN  IF index_panics(scr.data, target)
                      THEN [screen |-> scr, panicked |-> TRUE]
                      ELSE IF index(scr.data, target) # scr.background
                      THEN [screen |-> scr, panicked |-> TRUE]
                      ELSE Compose(
                             [scr EXCEPT !.data =
                                 index_mut(scr.data, target,
                                           index(sprite.pixels.data, Position(x, y)))],
                             sps, i, k + 1)

\* update without the reset of the screen.
update_without_reset(scr, sps) == Compose(scr, sps, 1, 0)

\* Board::update: reset, then the copy loop over the sprites in order.
update(scr, sps) == Compose(reset(scr), sps, 1, 0)

\* Board::add_sprite: the first admitted sprite, in order, whose intersect
\* with the new one does not return false decides: true rejects, a panic
\* propagates.  "admitted", "rejected" or "panic".
RECURSIVE add_sprite_from(_, _, _, _)
add_sprite_from(sps, newsprite, i, oc) ==
    IF i > Len(sps) THEN "admitted"
    ELSE LET r == intersect(sps[i], newsprite, oc)
         IN  IF r = "panic" THEN "panic"
             ELSE IF r = "true" THEN "rejected"
             ELSE add_sprite_from(sps, newsprite, i + 1, oc)

add_sprite(sps, newsprite, oc) == add_sprite_from(sps, newsprite, 1, oc)

(* ------------------------------ inputs --------------------------------- *)

Positions == {Position(px, py) : px \in 0..MaxX, py \in 0..MaxY}

\* The sprites a caller can build, with any foreground and background among
\* Bytes: Sprite::new (every cell the background) and build_from_str (here
\* every cell the foreground or the background).
SpriteInputs ==
    UNION { UNION { { SpriteOf(c, r, fg, bg, pos, cells) :
                        cells \in [1..(r * c) -> {fg, bg}] } :
                    fg \in Bytes, bg \in Bytes, pos \in Positions } :
            c \in 1..MaxCols, r \in 1..MaxRows }

\* The screens of the boards Board::build_from_str yields from a record with
\* no sprites and a screen whose cells all hold one byte.
LoadedScreens ==
    { [data |-> Array2DNew(ScreenCols, ScreenRows, v),
       foreground |-> ScreenFg, background |-> ScreenBg] : v \in Bytes }

\* The points a sprite is queried at: up to one past the farthest extent.
Points == {Position(px, py) : px \in 0..(MaxX + MaxCols), py \in 0..(MaxY + MaxRows)}

(* ------------------------- the board's life ---------------------------- *)

VARIABLES
    overflow_checks,  \* the build panics on usize overflow
    sprites,          \* Board.sprites
    screen,           \* Board.screen
    last,             \* the last call on the board and its outcome
    updates,          \* update calls completed since the last add_sprite
    probe,            \* the sprites under test, the call made and its result
    bitmap,           \* a Bitmap used on its own; bitmap.data is its Array2D
    twin,             \* the clones taken of bitmap.data: none or one
    made,             \* how bitmap.data was produced
    sets,             \* set calls made on bitmap.data and its clone
    call              \* the last call on the grid or its clone and its outcome

gridvars == <<bitmap, twin, made, sets, call>>

vars == <<overflow_checks, sprites, screen, last, updates, probe, bitmap, twin, made,
          sets, call>>

NoCall == [op |-> "none", on |-> "grid", pos |-> Position(0, 0), val |-> 0,
           outcome |-> "ok", got |-> 0]

\* No grid is used on its own.
GridIdle ==
    /\ bitmap = BitmapNew(0, 0, ScreenFg, ScreenBg)
    /\ twin = << >>
    /\ made = "none"
    /\ sets = 0
    /\ call = NoCall

NoProbe == [op |-> "none"]

\* Board::new
Init ==
    /\ overflow_checks \in BOOLEAN
    /\ sprites = << >>
    /\ screen = BitmapNew(ScreenCols, ScreenRows, ScreenFg, ScreenBg)
    /\ last = "new"
    /\ updates = 0
    /\ probe = NoProbe
    /\ GridIdle

Running == last \notin {"add_sprite_panic", "update_panic"}

AddSprite(newsprite) ==
    /\ Running
    /\ Len(sprites) < MaxSprites
    /\ LET r == add_sprite(sprites, newsprite, overflow_checks)
       IN  /\ sprites' = IF r = "admitted" THEN Append(sprites, newsprite) ELSE sprites
           /\ last' = IF r = "admitted" THEN "add_sprite_admitted"
                      ELSE IF r = "rejected" THEN "add_sprite_rejected"
                      ELSE "add_sprite_panic"
    /\ updates' = 0
    /\ UNCHANGED <<overflow_checks, screen, probe, gridvars>>

Update ==
    /\ Running
    /\ updates < MaxUpdates
    /\ LET r == update(screen, sprites)
       IN  /\ screen' = r.screen
           /\ last' = IF r.panicked THEN "update_panic" ELSE "update_ok"
    /\ updates' = updates + 1
    /\ UNCHANGED <<overflow_checks, sprites, probe, gridvars>>

Next ==
    \/ \E newsprite \in SpriteInputs : AddSprite(newsprite)
    \/ Update

Spec == Init /\ [][Next]_vars

\* Board::build_from_str
LoadedInit ==
    /\ overflow_checks \in BOOLEAN
    /\ sprites = << >>
    /\ screen \in LoadedScreens
    /\ last = "build_from_str"
    /\ updates = 0
    /\ probe = NoProbe
    /\ GridIdle

SpecLoaded == LoadedInit /\ [][Next]_vars

(* ---------------------- sprites queried directly ----------------------- *)

\* One sprite to query a point of, or two sprites to intersect.
SpriteInit ==
    /\ overflow_checks \in BOOLEAN
    /\ sprites = << >>
    /\ screen = BitmapNew(ScreenCols, ScreenRows, ScreenFg, ScreenBg)
    /\ last = "new"
    /\ updates = 0
    /\ GridIdle
    /\ \E a \in SpriteInputs :
          \/ probe = [op |-> "built", paired |-> FALSE, self |-> a, other |-> a,
                      point |-> Position(0, 0), pixel |-> None,
                      ab |-> "none", ba |-> "none"]
          \/ \E b \in SpriteInputs :
                probe = [op |-> "built", paired |-> TRUE, self |-> a, other |-> b,
                         point |-> Position(0, 0), pixel |-> None,
                         ab |-> "none", ba |-> "none"]

\* probe.self.get_pixel_at(&point)
PixelAt(point) ==
    /\ probe.op = "built"
    /\ ~probe.paired
    /\ probe' = [probe EXCEPT !.op = "pixel_at", !.point = point,
                              !.pixel = get_pixel_at(probe.self, point, overflow_checks)]
    /\ UNCHANGED <<overflow_checks, sprites, screen, last, updates, gridvars>>

\* probe.self.intersect(&probe.other) and probe.other.intersect(&probe.self)
Intersect ==
    /\ probe.op = "built"
    /\ probe.paired
    /\ probe' = [probe EXCEPT !.op = "intersect",
                              !.ab = intersect(probe.self, probe.other, overflow_checks),
                              !.ba = intersect(probe.other, probe.self, overflow_checks)]
    /\ UNCHANGED <<overflow_checks, sprites, screen, last, updates, gridvars>>

SpriteNext ==
    \/ \E point \in Points : PixelAt(point)
    \/ Intersect

SpecSprite == SpriteInit /\ [][SpriteNext]_vars

(* ----------------------- a grid used on its own ------------------------ *)

GridPoints == {Position(px, py) : px \in 0..MaxGridCols, py \in 0..MaxGridRows}

\* The bytes written by set: those of Bytes and the screen's foreground.
GridBytes == Bytes \cup {ScreenFg}

\* The sequences of bytes of the lengths 0..n.
SeqsUpTo(n) == UNION { [1..len -> Bytes] : len \in 0..n }

boardvars == <<overflow_checks, sprites, screen, last, updates, probe>>

\* A grid from Bitmap::new (Array2D::new with a fill value), from
\* Array2D::new without one, or from a deserialized record with any number
\* of elements up to one more than rows * cols.  No call on a grid subtracts,
\* so the build is the one of the tests.
GridInit ==
    /\ overflow_checks = TRUE
    /\ sprites = << >>
    /\ screen = BitmapNew(ScreenCols, ScreenRows, ScreenFg, ScreenBg)
    /\ last = "new"
    /\ updates = 0
    /\ probe = NoProbe
    /\ twin = << >>
    /\ sets = 0
    /\ call = NoCall
    /\ \E cols \in 0..MaxGridCols, rows \in 0..MaxGridRows, fg \in Bytes, bg \in Bytes :
          \/ /\ made = "new_fill"
             /\ bitmap = BitmapNew(cols, rows, fg, bg)
          \/ /\ made = "new_empty"
             /\ bitmap = [data |-> Array2DNewEmpty(cols, rows),
                          foreground |-> fg, background |-> bg]
          \/ /\ made = "record"
             /\ \E elements \in SeqsUpTo(rows * cols + 1) :
                   bitmap = [data |-> Array2DFromRecord(cols, rows, elements),
                             foreground |-> fg, background |-> bg]

TheGrid(on) == IF on = "grid" THEN bitmap.data ELSE twin[1]

\* grid[pos], on the grid or on its clone
Get(on, pos) ==
    /\ on = "twin" => Len(twin) = 1
    /\ LET a == TheGrid(on)
       IN  call' = IF index_panics(a, pos)
                   THEN [op |-> "get", on |-> on, pos |-> pos, val |-> 0,
                         outcome |-> "panic", got |-> 0]
                   ELSE [op |-> "get", on |-> on, pos |-> pos, val |-> 0,
                         outcome |-> "ok", got |-> index(a, pos)]
    /\ UNCHANGED <<boardvars, bitmap, twin, made, sets>>

\* grid[pos] = val, on the grid or on its clone
Set(on, pos, val) ==
    /\ sets < MaxSets
    /\ on = "twin" => Len(twin) = 1
    /\ LET a == TheGrid(on)
           ok == ~index_panics(a, pos)
       IN  /\ call' = [op |-> "set", on |-> on, pos |-> pos, val |-> val,
                       outcome |-> IF ok THEN "ok" ELSE "panic", got |-> 0]
           /\ bitmap' = IF ok /\ on = "grid"
                         THEN [bitmap EXCEPT !.data = index_mut(a, pos, val)]
                         ELSE bitmap
           /\ twin' = IF ok /\ on = "twin" THEN <<index_mut(a, pos, val)>> ELSE twin
    /\ sets' = sets + 1
    /\ UNCHANGED <<boardvars, made>>

\* bitmap.reset(), on a bitmap from Bitmap::new or from a record
Reset ==
    /\ made \in {"new_fill", "record"}
    /\ bitmap' = reset(bitmap)
    /\ call' = [op |-> "reset", on |-> "grid", pos |-> Position(0, 0), val |-> 0,
                outcome |-> IF reset_panics(bitmap) THEN "panic" ELSE "ok", got |-> 0]
    /\ UNCHANGED <<boardvars, twin, made, sets>>

\* bitmap.data.clone()
Clone ==
    /\ Len(twin) = 0
    /\ twin' = IF clone_panics(bitmap.data) THEN twin ELSE <<clone(bitmap.data)>>
    /\ call' = [op |-> "clone", on |-> "grid", pos |-> Position(0, 0), val |-> 0,
                outcome |-> IF clone_panics(bitmap.data) THEN "panic" ELSE "ok",
                got |-> 0]
    /\ UNCHANGED <<boardvars, bitmap, made, sets>>

GridNext ==
    \/ \E on \in {"grid", "twin"}, pos \in GridPoints : Get(on, pos)
    \/ \E on \in {"grid", "twin"}, pos \in GridPoints, val \in GridBytes :
          Set(on, pos, val)
    \/ Reset
    \/ Clone

SpecGrid == GridInit /\ [][GridNext]_vars

(* ------------------- what the properties speak of ---------------------- *)

\* The board coordinates some sprite of the model can cover.
Coords ==
    {Position(px, py) : px \in 0..(MaxX + MaxCols - 1), py \in 0..(MaxY + MaxRows - 1)}

\* c lies in the bounding rectangle of s: pos <= c < pos + (cols, rows).
Covers(s, c) ==
    /\ s.pos.x <= c.x /\ c.x < s.pos.x + s.pixels.data.cols
    /\ s.pos.y <= c.y /\ c.y < s.pos.y + s.pixels.data.rows

\* The cell of s at board coordinate c, that is at local coordinate c - pos.
CellAt(s, c) ==
    s.pixels.data.elements[(c.y - s.pos.y) * s.pixels.data.cols + (c.x - s.pos.x) + 1]

FgAt(s, c) == Covers(s, c) /\ CellAt(s, c) = s.pixels.foreground

\* Some board coordinate holds the own foreground of a and of b.
FgCoincide(a, b) == \E c \in Coords : FgAt(a, c) /\ FgAt(b, c)

RectsShare(a, b) == \E c \in Coords : Covers(a, c) /\ Covers(b, c)

ScreenCoords == {Position(px, py) : px \in 0..(ScreenCols - 1), py \in 0..(ScreenRows - 1)}

InsideScreen(s) == \A c \in Coords : Covers(s, c) => c \in ScreenCoords

Coverers(c) == {i \in DOMAIN sprites : Covers(sprites[i], c)}

ScreenAt(c) == screen.data.elements[c.y * ScreenCols + c.x + 1]

(* ------------------------------ claims --------------------------------- *)

\* C1 (as stated): on every board reached by add_sprite and update calls, no
\* board coordinate holds the own foreground of two different admitted
\* sprites.
C1_ForegroundDisjoint ==
    \A i \in DOMAIN sprites : \A j \in DOMAIN sprites :
        i < j => ~FgCoincide(sprites[i], sprites[j])

\* C2 (as stated): a.intersect(b) returns true exactly when some board
\* coordinate holds a's foreground and b's foreground, false otherwise, and
\* never fails.
C2_IntersectExact ==
    probe.op = "intersect" =>
        probe.ab = IF FgCoincide(probe.self, probe.other) THEN "true" ELSE "false"

\* C3 (as stated): pixel_at(p) is Some of the cell at p - pos when p lies in
\* the sprite's rectangle and None for every other p; it never fails.
C3_PixelAtTranslates ==
    probe.op = "pixel_at" =>
        probe.pixel = IF Covers(probe.self, probe.point)
                      THEN Some(CellAt(probe.self, probe.point))
                      ELSE None

\* C4 (as stated): when every admitted sprite lies inside the screen,
\* update() does not fail.
C4_UpdateNeverFailsInside ==
    last = "update_panic" => \E i \in DOMAIN sprites : ~InsideScreen(sprites[i])

\* Some screen coordinate is covered by two admitted sprites, the earlier of
\* which holds there a value other than the screen's background.
Occupied ==
    \E i \in DOMAIN sprites : \E j \in DOMAIN sprites :
        /\ i < j
        /\ \E c \in ScreenCoords :
              /\ Covers(sprites[i], c) /\ Covers(sprites[j], c)
              /\ CellAt(sprites[i], c) # screen.background

\* C4 (amended): update() fails exactly when an admitted sprite reaches
\* outside the screen or a screen coordinate is covered by two admitted
\* sprites of which the earlier holds there a value other than the screen's
\* background (its own background included); otherwise it completes.
C4_UpdateFailsExactly ==
    last \in {"update_ok", "update_panic"} =>
        (last = "update_panic" <=>
            \/ \E i \in DOMAIN sprites : ~InsideScreen(sprites[i])
            \/ Occupied)

\* s is as Sprite::new builds it.
FromNew(s) ==
    s = SpriteNew(s.pixels.data.cols, s.pixels.data.rows,
                  s.pixels.foreground, s.pixels.background, s.pos)

\* update() completed on two admitted sprites built by Sprite::new, inside
\* the screen, whose rectangles overlap and of which the later has a
\* background other than the screen's.
C4_Witness ==
    /\ last = "update_ok"
    /\ Len(sprites) = 2
    /\ FromNew(sprites[1]) /\ FromNew(sprites[2])
    /\ RectsShare(sprites[1], sprites[2])
    /\ sprites[2].pixels.background # screen.background
    /\ \A i \in DOMAIN sprites : InsideScreen(sprites[i])

\* C5: after update() completes, a screen coordinate covered by exactly one
\* admitted sprite holds that sprite's cell there, and a coordinate covered
\* by none holds the screen's background.
C5_ScreenAfterUpdate ==
    last = "update_ok" =>
        \A c \in ScreenCoords :
            /\ (\E i \in DOMAIN sprites : Coverers(c) = {i}) =>
                   \A i \in Coverers(c) : ScreenAt(c) = CellAt(sprites[i], c)
            /\ Coverers(c) = {} => ScreenAt(c) = screen.background

\* update() completed on a screen that held other values before, with one
\* coordinate covered by one sprite's foreground and another by none.
C5_Witness ==
    /\ last = "update_ok"
    /\ Len(sprites) = 2
    /\ \E c \in ScreenCoords, d \in ScreenCoords :
          /\ Cardinality(Coverers(c)) = 1
          /\ \A i \in Coverers(c) : CellAt(sprites[i], c) = sprites[i].pixels.foreground
          /\ ScreenAt(c) # screen.background
          /\ Coverers(d) = {}

\* The step is add_sprite(newsprite), and newsprite's foreground coincides
\* with the foreground of no admitted sprite.
AddSpriteStep(newsprite) ==
    /\ AddSprite(newsprite)
    /\ \A i \in DOMAIN sprites : ~FgCoincide(sprites[i], newsprite)

\* C6 (as stated): add_sprite of a sprite whose foreground coincides with no
\* admitted sprite's foreground completes and appends the sprite as the last
\* element, leaving the earlier sprites as they were.
C6_AdmitsDisjoint ==
    [][\A newsprite \in SpriteInputs :
          AddSpriteStep(newsprite) =>
              /\ last' = "add_sprite_admitted"
              /\ sprites' = Append(sprites, newsprite)]_vars

\* C7 (as stated): an update() that fails leaves the screen exactly as it
\* was before the call.
C7_FailedUpdateKeepsScreen ==
    [][last' = "update_panic" => screen' = screen]_vars

\* C8: an update() that follows a completed update(), with no add_sprite
\* between them, completes and leaves the screen as the first left it; no
\* update() changes the sprite list.
C8_UpdateIdempotent ==
    [][/\ (last = "update_ok" /\ updates' = updates + 1) =>
              (last' = "update_ok" /\ screen' = screen)
       /\ updates' = updates + 1 => sprites' = sprites]_vars

\* update() completed twice in a row on two sprites, leaving a screen that
\* is not all background.
C8_Witness ==
    /\ last = "update_ok"
    /\ updates = 2
    /\ Len(sprites) = 2
    /\ \E c \in ScreenCoords : ScreenAt(c) # screen.background

\* C9: a.intersect(b) and b.intersect(a) have the same outcome.
C9_IntersectSymmetric ==
    probe.op = "intersect" => probe.ab = probe.ba

\* Two different sprites with different foregrounds, one of them with equal
\* foreground and background, were intersected and found to collide.
C9_Witness ==
    /\ probe.op = "intersect"
    /\ probe.ab = "true"
    /\ probe.self.pixels.foreground # probe.other.pixels.foreground
    /\ probe.self.pixels.foreground = probe.self.pixels.background

\* C10: sprites whose inclusive bounding rectangles share no board
\* coordinate do not intersect: intersect returns false.
C10_ApartNeverIntersect ==
    (probe.op = "intersect" /\ ~RectsShare(probe.self, probe.other)) =>
        (probe.ab = "false" /\ probe.ba = "false")

\* Two sprites made of foreground only, the second directly right of the
\* first, were intersected.
C10_Witness ==
    /\ probe.op = "intersect"
    /\ probe.other.pos.x = probe.self.pos.x + probe.self.pixels.data.cols
    /\ probe.other.pos.y = probe.self.pos.y
    /\ \A c \in Coords : Covers(probe.self, c) => FgAt(probe.self, c)
    /\ \A c \in Coords : Covers(probe.other, c) => FgAt(probe.other, c)
    /\ probe.ab = "false"

\* The element of grid a behind pos, at the row-major offset.
OffsetOf(a, pos) == pos.y * a.cols + pos.x + 1

\* A step that is the call set(pos, val) on the grid itself.
SetOnGrid == call'.op = "set" /\ call'.on = "grid"

\* C11: on a grid created with a fill value, set(pos, v) with pos in range
\* completes, get(pos) then returns v, the write changes exactly the element
\* at offset pos.y * cols + pos.x, and rows and cols stay as they were.
C11_SetThenGet ==
    [][(/\ SetOnGrid
        /\ made = "new_fill"
        /\ call'.pos.x < bitmap.data.cols
        /\ call'.pos.y < bitmap.data.rows) =>
           /\ call'.outcome = "ok"
           /\ ~index_panics(bitmap'.data, call'.pos)
           /\ index(bitmap'.data, call'.pos) = call'.val
           /\ bitmap'.data.elements =
                  [bitmap.data.elements EXCEPT ![OffsetOf(bitmap.data, call'.pos)] = call'.val]
           /\ bitmap'.data.rows = bitmap.data.rows
           /\ bitmap'.data.cols = bitmap.data.cols]_vars

\* A grid created with a fill value took a set, away from its first row and
\* first column, of a value other than the fill.
C11_Witness ==
    /\ made = "new_fill"
    /\ call.op = "set" /\ call.on = "grid" /\ call.outcome = "ok"
    /\ call.pos.x > 0 /\ call.pos.y > 0
    /\ call.val # bitmap.background
    /\ bitmap.data.elements[OffsetOf(bitmap.data, call.pos)] = call.val

\* A step that is a get or a set on the grid itself.
GetOrSetOnGrid == call'.op \in {"get", "set"} /\ call'.on = "grid"

\* C12: get(pos) and set(pos, v) with pos.x >= cols or pos.y >= rows fail
\* and leave the grid as it was, also when pos.y * cols + pos.x is the
\* offset of an element.
C12_OutOfRangeFails ==
    [][(/\ GetOrSetOnGrid
        /\ (call'.pos.x >= bitmap.data.cols \/ call'.pos.y >= bitmap.data.rows)) =>
           /\ call'.outcome = "panic"
           /\ bitmap' = bitmap]_vars

\* A get one column past the last, in the first row of a grid with two rows
\* and all its elements, failed.
C12_Witness ==
    /\ call.op = "get" /\ call.on = "grid" /\ call.outcome = "panic"
    /\ call.pos.x = bitmap.data.cols /\ call.pos.y = 0
    /\ bitmap.data.cols > 0 /\ bitmap.data.rows >= 2
    /\ Len(bitmap.data.elements) = bitmap.data.rows * bitmap.data.cols

\* C13 (as stated): for any bitmap, reset() completes, after it every cell
\* can be read and holds the bitmap's background, whatever the cells held
\* before, and rows, cols, foreground and background are as they were.
C13_ResetToBackground ==
    [][call'.op = "reset" =>
           /\ call'.outcome = "ok"
           /\ \A pos \in GridPoints :
                  in_range(bitmap'.data, pos) =>
                      /\ ~index_panics(bitmap'.data, pos)
                      /\ index(bitmap'.data, pos) = bitmap.background
           /\ bitmap'.data.rows = bitmap.data.rows
           /\ bitmap'.data.cols = bitmap.data.cols
           /\ bitmap'.foreground = bitmap.foreground
           /\ bitmap'.background = bitmap.background]_vars

\* The same for the calls of reset() that return: they leave the background
\* in every cell and keep rows, cols, foreground and background.
ResetThatReturns ==
    [][(call'.op = "reset" /\ call'.outcome = "ok") =>
           /\ \A pos \in GridPoints :
                  in_range(bitmap'.data, pos) =>
                      /\ ~index_panics(bitmap'.data, pos)
                      /\ index(bitmap'.data, pos) = bitmap.background
           /\ bitmap'.data.rows = bitmap.data.rows
           /\ bitmap'.data.cols = bitmap.data.cols
           /\ bitmap'.foreground = bitmap.foreground
           /\ bitmap'.background = bitmap.background]_vars

\* C14 (as stated): clone() of a grid from Array2D::new, with or without a
\* fill value and also with zero cells, succeeds and yields a grid with the
\* same rows, cols and cells.
C14_CloneSucceeds ==
    (call.op = "clone" /\ made \in {"new_fill", "new_empty"}) =>
        /\ call.outcome = "ok"
        /\ twin = <<bitmap.data>>

\* C15 (as stated): every grid, however it was produced and after any set
\* calls, has rows * cols elements; a record with another number of elements
\* yields no grid.
C15_ElementsMatchDims ==
    /\ Len(bitmap.data.elements) = bitmap.data.rows * bitmap.data.cols
    /\ \A i \in DOMAIN twin : Len(twin[i].elements) = twin[i].rows * twin[i].cols

====
